---- MODULE Spec2Model ----
(***************************************************************************)
(* Model of src/shared/rust-crypto/src/lib.rs: context-bound authenticated *)
(* encryption (encrypt_with_context / decrypt_with_context) with a key     *)
(* derived per call from a master key and a random salt.                   *)
(*                                                                         *)
(* Bytes are naturals 0..255, text is a sequence of ASCII/UTF-8 code       *)
(* units.  Base64 and UTF-8 validation are computed as the libraries       *)
(* compute them.  Argon2id and AES-256-GCM are external crates; they are   *)
(* represented by small deterministic stand-ins with the same interface    *)
(* and structure (salt-length precondition, counter-mode keystream, a      *)
(* 16-byte tag over key, nonce, aad and encrypted bytes, tag verified      *)
(* before any plaintext is released).                                      *)
(***************************************************************************)
EXTENDS Integers, Sequences, FiniteSets, TLC

VARIABLES frames, scenario

vars == <<frames, scenario>>

\* ---------------------------------------------------------------- bounds
MaxCalls == 2
NumSeeds == 2

\* ------------------------------------------------------ program constants
SaltLen == 16
NonceLen == 12
KeyLen == 32
TagLen == 16
MinSaltLen == 8

Calls == 1..MaxCalls
Seeds == 1..NumSeeds

\* ------------------------------------------------------------- base64
Pad == 61

B64Char(v) ==
    IF v < 26 THEN 65 + v
    ELSE IF v < 52 THEN 97 + (v - 26)
    ELSE IF v < 62 THEN 48 + (v - 52)
    ELSE IF v = 62 THEN 43 ELSE 47

B64Val(ch) ==
    IF ch >= 65 /\ ch <= 90 THEN ch - 65
    ELSE IF ch >= 97 /\ ch <= 122 THEN ch - 71
    ELSE IF ch >= 48 /\ ch <= 57 THEN ch + 4
    ELSE IF ch = 43 THEN 62
    ELSE IF ch = 47 THEN 63
    ELSE -1

\* BASE64.encode: standard alphabet, padded.
B64Encode(b) ==
    LET n == Len(b)
        At(k) == IF k <= n THEN b[k] ELSE 0
    IN  [j \in 1..(4 * ((n + 2) \div 3)) |->
            LET g == (j - 1) \div 4
                r == (j - 1) % 4
                b1 == At(3 * g + 1)
                b2 == At(3 * g + 2)
                b3 == At(3 * g + 3)
            IN  IF r = 0 THEN B64Char(b1 \div 4)
                ELSE IF r = 1 THEN B64Char((b1 % 4) * 16 + b2 \div 16)
                ELSE IF r = 2
                     THEN IF 3 * g + 2 > n THEN Pad
                          ELSE B64Char((b2 % 16) * 4 + b3 \div 64)
                ELSE IF 3 * g + 3 > n THEN Pad ELSE B64Char(b3 % 64)]

\* BASE64.decode: canonical padding required, no stray trailing bits.
B64Decode(t) ==
    LET n == Len(t)
        npad == IF n >= 2 /\ t[n] = Pad
                THEN (IF t[n - 1] = Pad THEN 2 ELSE 1)
                ELSE 0
        ndata == n - npad
        V(k) == B64Val(t[k])
        wellFormed ==
            /\ n % 4 = 0
            /\ \A k \in 1..ndata : V(k) >= 0
            /\ npad = 1 => V(ndata) % 4 = 0
            /\ npad = 2 => V(ndata) % 16 = 0
    IN  IF ~wellFormed
        THEN [ok |-> FALSE, bytes |-> <<>>, err |-> "DecodeError"]
        ELSE [ok |-> TRUE,
              bytes |-> [k \in 1..((n \div 4) * 3 - npad) |->
                            LET g == (k - 1) \div 3
                                r == (k - 1) % 3
                            IN  IF r = 0
                                THEN V(4 * g + 1) * 4 + V(4 * g + 2) \div 16
                                ELSE IF r = 1
                                THEN (V(4 * g + 2) % 16) * 16 + V(4 * g + 3) \div 4
                                ELSE (V(4 * g + 3) % 4) * 64 + V(4 * g + 4)],
              err |-> ""]

\* ------------------------------------------------------------- UTF-8
IsCont(b) == b >= 128 /\ b <= 191

RECURSIVE Utf8From(_, _)
Utf8From(b, i) ==
    IF i > Len(b) THEN TRUE
    ELSE LET x == b[i]
             n == Len(b)
         IN  IF x < 128 THEN Utf8From(b, i + 1)
             ELSE IF x >= 194 /\ x <= 223
             THEN i + 1 <= n /\ IsCont(b[i + 1]) /\ Utf8From(b, i + 2)
             ELSE IF x >= 224 /\ x <= 239
             THEN /\ i + 2 <= n
                  /\ IsCont(b[i + 1])
                  /\ x = 224 => b[i + 1] >= 160
                  /\ x = 237 => b[i + 1] <= 159
                  /\ IsCont(b[i + 2])
                  /\ Utf8From(b, i + 3)
             ELSE IF x >= 240 /\ x <= 244
             THEN /\ i + 3 <= n
                  /\ IsCont(b[i + 1])
                  /\ x = 240 => b[i + 1] >= 144
                  /\ x = 244 => b[i + 1] <= 143
                  /\ IsCont(b[i + 2])
                  /\ IsCont(b[i + 3])
                  /\ Utf8From(b, i + 4)
             ELSE FALSE

\* Variant: accepts 7-bit text only.
from_utf8_ascii(b) ==
    IF \A i \in 1..Len(b) : b[i] < 128
    THEN [ok |-> TRUE, text |-> b, err |-> ""]
    ELSE [ok |-> FALSE, text |-> <<>>, err |-> "FromUtf8Error"]

\* String::from_utf8
from_utf8(b) ==
    IF Utf8From(b, 1)
    THEN [ok |-> TRUE, text |-> b, err |-> ""]
    ELSE [ok |-> FALSE, text |-> <<>>, err |-> "FromUtf8Error"]

\* ------------------------------------------------------ byte helpers
RECURSIVE Xor(_, _)
Xor(a, b) ==
    IF a = 0 THEN b
    ELSE IF b = 0 THEN a
    ELSE ((a + b) % 2) + 2 * Xor(a \div 2, b \div 2)

Pow2(k) == CASE k = 0 -> 1 [] k = 1 -> 2 [] k = 2 -> 4 [] k = 3 -> 8
             [] k = 4 -> 16 [] k = 5 -> 32 [] k = 6 -> 64 [] k = 7 -> 128

FlipBit(b, i, k) == [b EXCEPT ![i] = Xor(b[i], Pow2(k))]

\* Weighted checksum of data[lo..hi] modulo the prime 65521; the weight of
\* position k is a * k + c, never a multiple of the prime.
RECURSIVE WeightedSum(_, _, _, _, _)
WeightedSum(data, lo, hi, a, c) ==
    IF lo > hi THEN 0
    ELSE IF lo = hi THEN ((data[lo] + 1) * (a * lo + c)) % 65521
    ELSE LET mid == (lo + hi) \div 2
         IN  (WeightedSum(data, lo, mid, a, c)
              + WeightedSum(data, mid + 1, hi, a, c)) % 65521

Digest(data, a, c) == (WeightedSum(data, 1, Len(data), a, c) + Len(data)) % 65521

\* n bytes determined by two digests of data.
Expand(data, n) ==
    LET d1 == Digest(data, 31, 7)
        d2 == Digest(data, 131, 11)
    IN  [j \in 1..n |->
            IF j = 1 THEN d1 % 256
            ELSE IF j = 2 THEN d1 \div 256
            ELSE IF j = 3 THEN d2 % 256
            ELSE IF j = 4 THEN d2 \div 256
            ELSE ((d1 * j + d2 + j * j) % 65521) % 256]

\* ------------------------------------------------- Argon2 (stand-in)
\* Argon2::default().hash_password_into(password, salt, out[0..32]).
hash_password_into(password, salt) ==
    IF Len(salt) < MinSaltLen
    THEN [ok |-> FALSE, key |-> <<>>, err |-> "salt is too short"]
    ELSE [ok |-> TRUE,
          key |-> Expand(<<Len(password) % 256>> \o password \o salt, KeyLen),
          err |-> ""]

\* Variant: the key depends on the salt only.
derive_key_const(master_key, salt) ==
    LET r == hash_password_into(<<>>, salt)
    IN  IF r.ok
        THEN [ok |-> TRUE, key |-> r.key, err |-> <<>>]
        ELSE [ok |-> FALSE, key |-> <<>>,
              err |-> <<"Key derivation failed: ", r.err>>]

derive_key(master_key, salt) ==
    LET r == hash_password_into(master_key, salt)
    IN  IF r.ok
        THEN [ok |-> TRUE, key |-> r.key, err |-> <<>>]
        ELSE [ok |-> FALSE, key |-> <<>>,
              err |-> <<"Key derivation failed: ", r.err>>]

\* ---------------------------------------------- AES-256-GCM (stand-in)
KeyStream(key, nonce, n) ==
    LET d1 == Digest(key \o nonce, 37, 13)
        d2 == Digest(key \o nonce, 101, 17)
    IN  [i \in 1..n |-> ((d1 * (i + 3) + d2 * 5 + i) % 65521) % 256]

\* Variant: the associated data is left out of the tag.
GcmTag_noaad(key, nonce, aad, body) ==
    Expand(key \o nonce \o body, TagLen)

\* The tag covers key, nonce, associated data and encrypted bytes.
GcmTag(key, nonce, aad, body) ==
    Expand(key \o nonce \o <<Len(aad) % 256>> \o aad \o body, TagLen)

\* cipher.encrypt(nonce, Payload { msg, aad }): encrypted bytes, tag appended.
AeadEncrypt(key, nonce, aad, msg) ==
    LET ks == KeyStream(key, nonce, Len(msg))
        body == [i \in 1..Len(msg) |-> Xor(msg[i], ks[i])]
    IN  body \o GcmTag(key, nonce, aad, body)

\* Variant: counter-mode decryption without verifying the tag.
AeadDecrypt_noverify(key, nonce, aad, ct) ==
    IF Len(ct) < TagLen
    THEN [ok |-> FALSE, bytes |-> <<>>]
    ELSE LET n == Len(ct) - TagLen
             ks == KeyStream(key, nonce, n)
         IN  [ok |-> TRUE, bytes |-> [i \in 1..n |-> Xor(ct[i], ks[i])]]

\* cipher.decrypt(nonce, Payload { msg, aad }): the tag is verified first;
\* the error carries no information.
AeadDecrypt(key, nonce, aad, ct) ==
    IF Len(ct) < TagLen
    THEN [ok |-> FALSE, bytes |-> <<>>]
    ELSE LET n == Len(ct) - TagLen
             body == SubSeq(ct, 1, n)
             tag == SubSeq(ct, n + 1, Len(ct))
             ks == KeyStream(key, nonce, n)
         IN  IF tag # GcmTag(key, nonce, aad, body)
             THEN [ok |-> FALSE, bytes |-> <<>>]
             ELSE [ok |-> TRUE, bytes |-> [i \in 1..n |-> Xor(body[i], ks[i])]]

\* OsRng.fill_bytes: the block of n bytes the source yields for an entropy
\* state; which state it is in is not under the program's control.
OsRng_fill_bytes(seed, n) ==
    [i \in 1..n |-> (seed * 89 + i * 37 + n * 5) % 256]

\* --------------------------------------------------------- results
Ok(v) == [ok |-> TRUE, msg |-> <<>>, value |-> v]
PyValueError(m) == [ok |-> FALSE, msg |-> m, value |-> <<>>]
NoResult == [ok |-> FALSE, msg |-> <<"pending">>, value |-> <<>>]

InvalidBase64(field, e) == PyValueError(<<"Invalid base64 ", field, ": ", e>>)
InvalidNonceLength == PyValueError(<<"Invalid nonce length">>)
KeyDerivationFailed(m) == PyValueError(m)
AuthenticationFailed ==
    PyValueError(<<"Decryption failed: Integrity check failed or context mismatch">>)
InvalidUtf8(e) == PyValueError(<<"Invalid UTF-8: ", e>>)

\* ------------------------------------------------------ call frames
NoFrame ==
    [op |-> "none", pc |-> "idle",
     plaintext |-> <<>>, master_key |-> <<>>, aad_context |-> <<>>,
     ciphertext_b64 |-> <<>>, salt_b64 |-> <<>>, nonce_b64 |-> <<>>,
     salt |-> <<>>, nonce_bytes |-> <<>>, key_bytes |-> <<>>,
     ciphertext |-> <<>>, plaintext_bytes |-> <<>>,
     result |-> NoResult, ran |-> <<>>, draws |-> <<>>]

\* Leaving the function: every local binding is dropped; the caller keeps its
\* arguments and the returned value (ran and draws are history of the call).
Return(f, r) ==
    [f EXCEPT !.pc = "done", !.result = r,
              !.salt = <<>>, !.nonce_bytes = <<>>, !.key_bytes = <<>>,
              !.ciphertext = <<>>, !.plaintext_bytes = <<>>]

Ran(f, what) == [f EXCEPT !.ran = Append(@, what)]

\* ----------------------------------------------------------- inputs
\* Two scenarios are explored.  "pair": two call positions used one after
\* the other, every argument set at full width (all single-bit changes, all
\* field substitutions).
\* "concurrent": MaxCalls call positions interleaved step by step, with
\* one plaintext and one tampering of each kind.
Wide == scenario = "pair"

Plaintexts == IF Wide THEN {<<>>, <<195, 169>>} ELSE {<<104, 105>>}
MasterKeys == {<<115, 107>>, <<115, 75>>}
Contexts == {<<117, 52, 50>>, <<117, 52, 51>>}
RawPayloads == IF Wide THEN {<<255>>, <<195>>} ELSE {<<255>>}
\* Keys and contexts encrypt_with_context is called with.
EncKeys == IF Wide THEN MasterKeys ELSE {<<115, 107>>}
EncContexts == IF Wide THEN Contexts ELSE {<<117, 52, 50>>}

BadSymbolText == <<33, 33, 33, 33>>
UnpaddedText == <<81, 81>>
TrailingBitsText == <<81, 82, 61, 61>>

DecryptArgs(c, s, n, k, x) ==
    [ciphertext_b64 |-> c, salt_b64 |-> s, nonce_b64 |-> n,
     master_key |-> k, aad_context |-> x]

\* What a caller may pass to decrypt_with_context given an envelope it got
\* from encrypt_with_context(_, k, x): the envelope itself under any key and
\* context, every single-bit change of the decoded ciphertext, and fields
\* replaced by other, truncated, extended or undecodable ones.
EnvelopeInputs(env, k, x) ==
    LET ctb == B64Decode(env.ciphertext).bytes
        sb == B64Decode(env.salt).bytes
        nb == B64Decode(env.nonce).bytes
        ctAlt == {env.ciphertext, BadSymbolText,
                  B64Encode(SubSeq(ctb, 1, TagLen - 1))}
        saltAlt == {env.salt, UnpaddedText,
                    B64Encode(SubSeq(sb, 1, MinSaltLen - 1))}
                   \cup {B64Encode(OsRng_fill_bytes(s, SaltLen)) : s \in Seeds}
        nonceAlt == {env.nonce, TrailingBitsText,
                     B64Encode(SubSeq(nb, 1, NonceLen - 1)),
                     B64Encode(Append(nb, 0))}
                    \cup {B64Encode(OsRng_fill_bytes(s, NonceLen)) : s \in Seeds}
        other(v, alt) == CHOOSE w \in alt : w # v
    IN  IF Wide
        THEN {DecryptArgs(B64Encode(FlipBit(ctb, i, b)), env.salt, env.nonce,
                          k, x) : i \in 1..Len(ctb), b \in 0..7}
             \cup
             {DecryptArgs(c, s, n, k2, x2) :
                 c \in ctAlt, s \in saltAlt, n \in nonceAlt,
                 k2 \in MasterKeys, x2 \in Contexts}
        ELSE {DecryptArgs(env.ciphertext, env.salt, env.nonce, k, x),
              DecryptArgs(env.ciphertext, env.salt, env.nonce,
                          other(k, MasterKeys), x),
              DecryptArgs(env.ciphertext, env.salt, env.nonce, k,
                          other(x, Contexts)),
              DecryptArgs(B64Encode(FlipBit(ctb, 1, 0)), env.salt, env.nonce,
                          k, x),
              DecryptArgs(B64Encode(FlipBit(ctb, Len(ctb), 7)), env.salt,
                          env.nonce, k, x),
              DecryptArgs(env.ciphertext, B64Encode(FlipBit(sb, 1, 0)),
                          env.nonce, k, x)}

\* Envelopes not made by encrypt_with_context: a holder of the master key
\* sealed bytes that are not UTF-8 text.  They are presented with the right
\* key and context and, in the pair scenario, with another key or context.
StoredInputs ==
    LET s0 == OsRng_fill_bytes(1, SaltLen)
        n0 == OsRng_fill_bytes(1, NonceLen)
    IN  UNION {
          LET ct == B64Encode(AeadEncrypt(derive_key(k0, s0).key, n0, x0, p))
          IN  {DecryptArgs(ct, B64Encode(s0), B64Encode(n0), k0, x0)}
              \cup {DecryptArgs(ct, B64Encode(s0), B64Encode(n0), k, x0) :
                       k \in IF Wide THEN MasterKeys \ {k0} ELSE {}}
              \cup {DecryptArgs(ct, B64Encode(s0), B64Encode(n0), k0, x) :
                       x \in IF Wide THEN Contexts \ {x0} ELSE {}} :
          p \in RawPayloads, k0 \in EncKeys, x0 \in EncContexts}

DecryptInputs ==
    StoredInputs
    \cup UNION {EnvelopeInputs(frames[e].result.value, frames[e].master_key,
                               frames[e].aad_context) :
                  e \in {d \in Calls : /\ frames[d].op = "enc"
                                       /\ frames[d].pc = "done"
                                       /\ frames[d].result.ok}}

\* ------------------------------------------------------------ state
Init ==
    /\ frames = [c \in Calls |-> NoFrame]
    /\ scenario = "pair"

InitConc ==
    /\ frames = [c \in Calls |-> NoFrame]
    /\ scenario = "concurrent"

\* Calls occupy the lowest free position; the pair scenario uses two, one
\* call at a time.
CanCall(c) ==
    /\ frames[c].pc = "idle"
    /\ UNCHANGED scenario
    /\ \A d \in 1..(c - 1) : frames[d].pc # "idle"
    /\ Wide => /\ c \in {1, 2}
               /\ \A d \in Calls : frames[d].pc \in {"idle", "done"}

\* let key = Key::<Aes256Gcm>::from_slice(&key_bytes): the key of this call.
\* Variant: one key buffer shared by all calls in progress.
SessionKey_shared(c) ==
    LET others == {d \in Calls : d # c /\ frames[d].key_bytes # <<>>}
    IN  IF others = {} THEN frames[c].key_bytes
        ELSE frames[CHOOSE d \in others : TRUE].key_bytes

SessionKey(c) == frames[c].key_bytes

\* ------------------------------------------- encrypt_with_context
CallEncrypt(c) ==
    /\ CanCall(c)
    /\ UNCHANGED scenario
    /\ \E p \in Plaintexts, k \in EncKeys, x \in EncContexts :
          frames' = [frames EXCEPT ![c] =
                        [NoFrame EXCEPT !.op = "enc", !.pc = "enc_salt",
                                        !.plaintext = p, !.master_key = k,
                                        !.aad_context = x]]

\* Variant: the salt buffer is left as initialised, [0u8; 16].
EncDrawSalt_zero(c) ==
    /\ frames[c].pc = "enc_salt"
    /\ UNCHANGED scenario
    /\ frames' = [frames EXCEPT ![c] =
                    [frames[c] EXCEPT !.salt = [i \in 1..SaltLen |-> 0],
                                      !.pc = "enc_nonce"]]

EncDrawSalt(c) ==
    /\ frames[c].pc = "enc_salt"
    /\ UNCHANGED scenario
    /\ \E seed \in Seeds :
          LET drawn == OsRng_fill_bytes(seed, SaltLen)
          IN  frames' = [frames EXCEPT ![c] =
                            [Ran(frames[c], "fill salt") EXCEPT
                                !.salt = drawn,
                                !.draws = Append(@, drawn),
                                !.pc = "enc_nonce"]]

EncDrawNonce(c) ==
    /\ frames[c].pc = "enc_nonce"
    /\ UNCHANGED scenario
    /\ \E seed \in Seeds :
          LET drawn == OsRng_fill_bytes(seed, NonceLen)
          IN  frames' = [frames EXCEPT ![c] =
                            [Ran(frames[c], "fill nonce") EXCEPT
                                !.nonce_bytes = drawn,
                                !.draws = Append(@, drawn),
                                !.pc = "enc_cipher_key"]]

EncDeriveKey(c) ==
    /\ frames[c].pc = "enc_cipher_key"
    /\ UNCHANGED scenario
    /\ LET f == Ran(frames[c], "derive_key")
           r == derive_key(f.master_key, f.salt)
       IN  frames' = [frames EXCEPT ![c] =
                        IF r.ok
                        THEN [f EXCEPT !.key_bytes = r.key, !.pc = "enc_cipher"]
                        ELSE Return(f, KeyDerivationFailed(r.err))]

EncEncrypt(c) ==
    /\ frames[c].pc = "enc_cipher"
    /\ UNCHANGED scenario
    /\ LET f == Ran(frames[c], "cipher.encrypt")
       IN  frames' = [frames EXCEPT ![c] =
                        [f EXCEPT !.ciphertext =
                                      AeadEncrypt(SessionKey(c), f.nonce_bytes,
                                                  f.aad_context, f.plaintext),
                                  !.pc = "enc_return"]]

\* Variant: salt and nonce stored under each other's key.
EncReturn_swapped(c) ==
    /\ frames[c].pc = "enc_return"
    /\ UNCHANGED scenario
    /\ LET f == Ran(frames[c], "encode")
       IN  frames' = [frames EXCEPT ![c] =
                        Return(f, Ok([ciphertext |-> B64Encode(f.ciphertext),
                                      salt |-> B64Encode(f.nonce_bytes),
                                      nonce |-> B64Encode(f.salt)]))]

EncReturn(c) ==
    /\ frames[c].pc = "enc_return"
    /\ UNCHANGED scenario
    /\ LET f == Ran(frames[c], "encode")
       IN  frames' = [frames EXCEPT ![c] =
                        Return(f, Ok([ciphertext |-> B64Encode(f.ciphertext),
                                      salt |-> B64Encode(f.salt),
                                      nonce |-> B64Encode(f.nonce_bytes)]))]

\* ------------------------------------------- decrypt_with_context
CallDecrypt(c) ==
    /\ CanCall(c)
    /\ UNCHANGED scenario
    /\ \E a \in DecryptInputs :
          frames' = [frames EXCEPT ![c] =
                        [NoFrame EXCEPT !.op = "dec", !.pc = "dec_ciphertext",
                                        !.ciphertext_b64 = a.ciphertext_b64,
                                        !.salt_b64 = a.salt_b64,
                                        !.nonce_b64 = a.nonce_b64,
                                        !.master_key = a.master_key,
                                        !.aad_context = a.aad_context]]

\* Variant: an undecodable ciphertext is reported only if the salt decodes.
DecDecodeCiphertext_deferred(c) ==
    /\ frames[c].pc = "dec_ciphertext"
    /\ UNCHANGED scenario
    /\ LET f == Ran(frames[c], "decode ciphertext")
           r == B64Decode(f.ciphertext_b64)
       IN  frames' = [frames EXCEPT ![c] =
                        IF r.ok \/ ~B64Decode(f.salt_b64).ok
                        THEN [f EXCEPT !.ciphertext = r.bytes, !.pc = "dec_salt"]
                        ELSE Return(f, InvalidBase64("ciphertext", r.err))]

DecDecodeCiphertext(c) ==
    /\ frames[c].pc = "dec_ciphertext"
    /\ UNCHANGED scenario
    /\ LET f == Ran(frames[c], "decode ciphertext")
           r == B64Decode(f.ciphertext_b64)
       IN  frames' = [frames EXCEPT ![c] =
                        IF r.ok
                        THEN [f EXCEPT !.ciphertext = r.bytes, !.pc = "dec_salt"]
                        ELSE Return(f, InvalidBase64("ciphertext", r.err))]

DecDecodeSalt(c) ==
    /\ frames[c].pc = "dec_salt"
    /\ UNCHANGED scenario
    /\ LET f == Ran(frames[c], "decode salt")
           r == B64Decode(f.salt_b64)
       IN  frames' = [frames EXCEPT ![c] =
                        IF r.ok
                        THEN [f EXCEPT !.salt = r.bytes, !.pc = "dec_nonce"]
                        ELSE Return(f, InvalidBase64("salt", r.err))]

DecDecodeNonce(c) ==
    /\ frames[c].pc = "dec_nonce"
    /\ UNCHANGED scenario
    /\ LET f == Ran(frames[c], "decode nonce")
           r == B64Decode(f.nonce_b64)
       IN  frames' = [frames EXCEPT ![c] =
                        IF r.ok
                        THEN [f EXCEPT !.nonce_bytes = r.bytes, !.pc = "dec_len"]
                        ELSE Return(f, InvalidBase64("nonce", r.err))]

\* Variant: only a nonce that is too long is rejected.
DecCheckNonceLen_atmost(c) ==
    /\ frames[c].pc = "dec_len"
    /\ UNCHANGED scenario
    /\ LET f == Ran(frames[c], "nonce length")
       IN  frames' = [frames EXCEPT ![c] =
                        IF Len(f.nonce_bytes) > NonceLen
                        THEN Return(f, InvalidNonceLength)
                        ELSE [f EXCEPT !.pc = "dec_key"]]

DecCheckNonceLen(c) ==
    /\ frames[c].pc = "dec_len"
    /\ UNCHANGED scenario
    /\ LET f == Ran(frames[c], "nonce length")
       IN  frames' = [frames EXCEPT ![c] =
                        IF Len(f.nonce_bytes) # NonceLen
                        THEN Return(f, InvalidNonceLength)
                        ELSE [f EXCEPT !.pc = "dec_key"]]

DecDeriveKey(c) ==
    /\ frames[c].pc = "dec_key"
    /\ UNCHANGED scenario
    /\ LET f == Ran(frames[c], "derive_key")
           r == derive_key(f.master_key, f.salt)
       IN  frames' = [frames EXCEPT ![c] =
                        IF r.ok
                        THEN [f EXCEPT !.key_bytes = r.key, !.pc = "dec_cipher"]
                        ELSE Return(f, KeyDerivationFailed(r.err))]

\* Variant: the error message tells why the cipher rejected the input.
DecDecrypt_verbose(c) ==
    /\ frames[c].pc = "dec_cipher"
    /\ UNCHANGED scenario
    /\ LET f == Ran(frames[c], "cipher.decrypt")
           r == AeadDecrypt(SessionKey(c), f.nonce_bytes, f.aad_context,
                            f.ciphertext)
       IN  frames' = [frames EXCEPT ![c] =
                        IF r.ok
                        THEN [f EXCEPT !.plaintext_bytes = r.bytes,
                                       !.pc = "dec_utf8"]
                        ELSE Return(f, PyValueError(
                                 <<"Decryption failed: ",
                                   IF Len(f.ciphertext) < TagLen
                                   THEN "ciphertext too short"
                                   ELSE IF \E x \in Contexts :
                                            AeadDecrypt(SessionKey(c),
                                                f.nonce_bytes, x,
                                                f.ciphertext).ok
                                   THEN "context mismatch"
                                   ELSE "integrity check failed">>))]

DecDecrypt(c) ==
    /\ frames[c].pc = "dec_cipher"
    /\ UNCHANGED scenario
    /\ LET f == Ran(frames[c], "cipher.decrypt")
           r == AeadDecrypt(SessionKey(c), f.nonce_bytes, f.aad_context,
                            f.ciphertext)
       IN  frames' = [frames EXCEPT ![c] =
                        IF r.ok
                        THEN [f EXCEPT !.plaintext_bytes = r.bytes,
                                       !.pc = "dec_utf8"]
                        ELSE Return(f, AuthenticationFailed)]

DecUtf8(c) ==
    /\ frames[c].pc = "dec_utf8"
    /\ UNCHANGED scenario
    /\ LET f == Ran(frames[c], "from_utf8")
           r == from_utf8(f.plaintext_bytes)
       IN  frames' = [frames EXCEPT ![c] =
                        IF r.ok
                        THEN Return(f, Ok(r.text))
                        ELSE Return(f, InvalidUtf8(r.err))]

\* The caller is done with the result of a finished call.
Release(c) ==
    /\ frames[c].pc = "done"
    /\ UNCHANGED scenario
    /\ \A d \in Calls : d > c => frames[d].pc = "idle"
    /\ frames' = [frames EXCEPT ![c] = NoFrame]

Next ==
    \/ \E c \in Calls : CallEncrypt(c)
    \/ \E c \in Calls : EncDrawSalt(c)
    \/ \E c \in Calls : EncDrawNonce(c)
    \/ \E c \in Calls : EncDeriveKey(c)
    \/ \E c \in Calls : EncEncrypt(c)
    \/ \E c \in Calls : EncReturn(c)
    \/ \E c \in Calls : CallDecrypt(c)
    \/ \E c \in Calls : DecDecodeCiphertext(c)
    \/ \E c \in Calls : DecDecodeSalt(c)
    \/ \E c \in Calls : DecDecodeNonce(c)
    \/ \E c \in Calls : DecCheckNonceLen(c)
    \/ \E c \in Calls : DecDeriveKey(c)
    \/ \E c \in Calls : DecDecrypt(c)
    \/ \E c \in Calls : DecUtf8(c)
    \/ \E c \in Calls : Release(c)

Spec == Init /\ [][Next]_vars

SpecConc == InitConc /\ [][Next]_vars

TypeOK == \A c \in Calls : frames[c].pc \in {"idle", "done", "enc_salt",
    "enc_nonce", "enc_cipher_key", "enc_cipher", "enc_return",
    "dec_ciphertext", "dec_salt", "dec_nonce", "dec_len", "dec_key",
    "dec_cipher", "dec_utf8"}

\* ------------------------------------------ the functions as a whole
\* encrypt_with_context run alone with the given random draws.
EncryptAlone(plaintext, master_key, aad_context, salt, nonce_bytes) ==
    LET r == derive_key(master_key, salt)
    IN  IF ~r.ok THEN KeyDerivationFailed(r.err)
        ELSE Ok([ciphertext |-> B64Encode(AeadEncrypt(r.key, nonce_bytes,
                                                      aad_context, plaintext)),
                 salt |-> B64Encode(salt),
                 nonce |-> B64Encode(nonce_bytes)])

\* decrypt_with_context run alone.
DecryptAlone(ciphertext_b64, salt_b64, nonce_b64, master_key, aad_context) ==
    LET ct == B64Decode(ciphertext_b64)
        st == B64Decode(salt_b64)
        nc == B64Decode(nonce_b64)
        kd == derive_key(master_key, st.bytes)
        pt == AeadDecrypt(kd.key, nc.bytes, aad_context, ct.bytes)
        tx == from_utf8(pt.bytes)
    IN  IF ~ct.ok THEN InvalidBase64("ciphertext", ct.err)
        ELSE IF ~st.ok THEN InvalidBase64("salt", st.err)
        ELSE IF ~nc.ok THEN InvalidBase64("nonce", nc.err)
        ELSE IF Len(nc.bytes) # NonceLen THEN InvalidNonceLength
        ELSE IF ~kd.ok THEN KeyDerivationFailed(kd.err)
        ELSE IF ~pt.ok THEN AuthenticationFailed
        ELSE IF ~tx.ok THEN InvalidUtf8(tx.err)
        ELSE Ok(tx.text)

\* ----------------------------------------------------- vocabulary
EncDone(e) ==
    frames[e].op = "enc" /\ frames[e].pc = "done" /\ frames[e].result.ok

DecDone(d) == frames[d].op = "dec" /\ frames[d].pc = "done"

Env(e) == frames[e].result.value

\* d was given the envelope e returned.
SameEnvelope(d, e) ==
    /\ frames[d].ciphertext_b64 = Env(e).ciphertext
    /\ frames[d].salt_b64 = Env(e).salt
    /\ frames[d].nonce_b64 = Env(e).nonce

HasRun(f, what) == \E i \in 1..Len(f.ran) : f.ran[i] = what

IsInvalidUtf8(r) == ~r.ok /\ r.msg[1] = "Invalid UTF-8: "

\* a and b differ in exactly one bit.
OneBitApart(a, b) ==
    /\ Len(a) = Len(b)
    /\ \E i \in 1..Len(a) :
          /\ Xor(a[i], b[i]) \in {1, 2, 4, 8, 16, 32, 64, 128}
          /\ \A j \in 1..Len(a) : j # i => a[j] = b[j]

\* The cipher was run in call d and rejected its input.
CipherRejected(d) ==
    /\ DecDone(d)
    /\ HasRun(frames[d], "cipher.decrypt")
    /\ ~HasRun(frames[d], "from_utf8")

DecodeSteps == <<"decode ciphertext", "decode salt", "decode nonce">>
DecryptSteps ==
    DecodeSteps \o <<"nonce length", "derive_key", "cipher.decrypt", "from_utf8">>
EncryptSteps ==
    <<"fill salt", "fill nonce", "derive_key", "cipher.encrypt", "encode">>

\* ----------------------------------------------------------- claims

\* C1: round trip.  Whenever encrypt_with_context(P, K, C) has returned an
\* envelope and decrypt_with_context has been called with exactly that
\* envelope, K and C, it returns Ok(P), whatever salt and nonce were drawn.
C1_RoundTrip ==
    \A e \in Calls, d \in Calls :
        (/\ EncDone(e) /\ DecDone(d) /\ SameEnvelope(d, e)
         /\ frames[d].master_key = frames[e].master_key
         /\ frames[d].aad_context = frames[e].aad_context)
        => frames[d].result = Ok(frames[e].plaintext)

C1_Witness ==
    \E e \in Calls, d \in Calls :
        /\ EncDone(e) /\ DecDone(d) /\ SameEnvelope(d, e)
        /\ frames[d].master_key = frames[e].master_key
        /\ frames[d].aad_context = frames[e].aad_context
        /\ frames[e].plaintext = <<195, 169>>
        /\ frames[e].draws = <<OsRng_fill_bytes(2, SaltLen),
                               OsRng_fill_bytes(1, NonceLen)>>

\* C2: context binding.  Decrypting an envelope of encrypt_with_context with
\* the same master key and a different context returns the
\* AuthenticationFailed error, and so no plaintext.
C2_ContextBinding ==
    \A e \in Calls, d \in Calls :
        (/\ EncDone(e) /\ DecDone(d) /\ SameEnvelope(d, e)
         /\ frames[d].master_key = frames[e].master_key
         /\ frames[d].aad_context # frames[e].aad_context)
        => frames[d].result = AuthenticationFailed

C2_Witness ==
    \E e \in Calls, d \in Calls :
        /\ EncDone(e) /\ DecDone(d) /\ SameEnvelope(d, e)
        /\ frames[d].master_key = frames[e].master_key
        /\ frames[d].aad_context # frames[e].aad_context
        /\ HasRun(frames[d], "cipher.decrypt")

\* C3: fail-closed matching.  A decrypt call on the ciphertext of an encrypt
\* call returns a plaintext only if master key, decoded salt, decoded nonce
\* and context all equal those of the encrypt call (and then it is that
\* call's plaintext); otherwise it ends in an error that carries no bytes.
C3_FailClosed ==
    \A e \in Calls, d \in Calls :
        (/\ EncDone(e) /\ DecDone(d)
         /\ frames[d].ciphertext_b64 = Env(e).ciphertext)
        => IF /\ frames[d].master_key = frames[e].master_key
              /\ frames[d].aad_context = frames[e].aad_context
              /\ B64Decode(frames[d].salt_b64) = B64Decode(Env(e).salt)
              /\ B64Decode(frames[d].nonce_b64) = B64Decode(Env(e).nonce)
           THEN frames[d].result = Ok(frames[e].plaintext)
           ELSE ~frames[d].result.ok /\ frames[d].result.value = <<>>

C3_Witness ==
    \E e \in Calls, d \in Calls :
        /\ EncDone(e) /\ DecDone(d) /\ SameEnvelope(d, e)
        /\ frames[d].master_key # frames[e].master_key
        /\ frames[d].aad_context = frames[e].aad_context
        /\ HasRun(frames[d], "cipher.decrypt")
        /\ ~frames[d].result.ok

\* C4: tamper detection.  If the decoded ciphertext given to decrypt differs
\* in exactly one bit (encrypted bytes or tag) from the one encrypt returned,
\* with salt, nonce, master key and context unchanged, decrypt fails and
\* returns no plaintext.
C4_TamperDetection ==
    \A e \in Calls, d \in Calls :
        (/\ EncDone(e) /\ DecDone(d)
         /\ frames[d].salt_b64 = Env(e).salt
         /\ frames[d].nonce_b64 = Env(e).nonce
         /\ frames[d].master_key = frames[e].master_key
         /\ frames[d].aad_context = frames[e].aad_context
         /\ B64Decode(frames[d].ciphertext_b64).ok
         /\ OneBitApart(B64Decode(frames[d].ciphertext_b64).bytes,
                        B64Decode(Env(e).ciphertext).bytes))
        => ~frames[d].result.ok /\ frames[d].result.value = <<>>

\* a flipped bit in the last byte of the tag
C4_Witness ==
    \E e \in Calls, d \in Calls :
        /\ EncDone(e) /\ DecDone(d)
        /\ frames[d].salt_b64 = Env(e).salt
        /\ frames[d].nonce_b64 = Env(e).nonce
        /\ frames[d].master_key = frames[e].master_key
        /\ frames[d].aad_context = frames[e].aad_context
        /\ B64Decode(frames[d].ciphertext_b64).ok
        /\ LET a == B64Decode(frames[d].ciphertext_b64).bytes
               b == B64Decode(Env(e).ciphertext).bytes
           IN  /\ OneBitApart(a, b)
               /\ a[Len(a)] # b[Len(b)]
        /\ HasRun(frames[d], "cipher.decrypt")

\* C5: the nonce length is checked before any cryptographic step.  A decrypt
\* call whose three fields decode and whose decoded nonce is not 12 bytes
\* ends with InvalidNonceLength, and neither key derivation nor the cipher
\* has run in it.
C5_NonceLengthFirst ==
    \A d \in Calls :
        (/\ DecDone(d)
         /\ B64Decode(frames[d].ciphertext_b64).ok
         /\ B64Decode(frames[d].salt_b64).ok
         /\ B64Decode(frames[d].nonce_b64).ok
         /\ Len(B64Decode(frames[d].nonce_b64).bytes) # NonceLen)
        => /\ frames[d].result = InvalidNonceLength
           /\ frames[d].ran = DecodeSteps \o <<"nonce length">>

C5_Witness ==
    \E d \in Calls :
        /\ DecDone(d)
        /\ B64Decode(frames[d].ciphertext_b64).ok
        /\ B64Decode(frames[d].salt_b64).ok
        /\ B64Decode(frames[d].nonce_b64).ok
        /\ Len(B64Decode(frames[d].nonce_b64).bytes) = NonceLen - 1
        /\ frames[d].result = InvalidNonceLength

\* C6: base64 failures are reported per field and first.  A decrypt call
\* with an undecodable field ends with InvalidBase64 naming the first
\* undecodable field in the order ciphertext, salt, nonce, and nothing after
\* that field's decoding has run (no later decoding, no length check, no key
\* derivation, no cipher).
C6_Base64First ==
    \A d \in Calls :
        DecDone(d) =>
            LET ct == B64Decode(frames[d].ciphertext_b64)
                st == B64Decode(frames[d].salt_b64)
                nc == B64Decode(frames[d].nonce_b64)
            IN  /\ ~ct.ok =>
                       /\ frames[d].result = InvalidBase64("ciphertext", ct.err)
                       /\ frames[d].ran = SubSeq(DecodeSteps, 1, 1)
                /\ (ct.ok /\ ~st.ok) =>
                       /\ frames[d].result = InvalidBase64("salt", st.err)
                       /\ frames[d].ran = SubSeq(DecodeSteps, 1, 2)
                /\ (ct.ok /\ st.ok /\ ~nc.ok) =>
                       /\ frames[d].result = InvalidBase64("nonce", nc.err)
                       /\ frames[d].ran = DecodeSteps

\* ciphertext and nonce both undecodable: the ciphertext is named
C6_Witness ==
    \E d \in Calls :
        /\ DecDone(d)
        /\ ~B64Decode(frames[d].ciphertext_b64).ok
        /\ ~B64Decode(frames[d].salt_b64).ok
        /\ ~B64Decode(frames[d].nonce_b64).ok
        /\ frames[d].result.msg[2] = "ciphertext"

\* C7: undifferentiated authentication failure.  Every decrypt call in which
\* the cipher rejected its input returns the same error value, the fixed
\* AuthenticationFailed, so any two such calls have equal results whichever
\* of ciphertext, tag, key, salt, nonce or context was wrong.
C7_Undifferentiated ==
    \A d1 \in Calls, d2 \in Calls :
        (CipherRejected(d1) /\ CipherRejected(d2))
        => /\ frames[d1].result = frames[d2].result
           /\ frames[d1].result = AuthenticationFailed

\* the same envelope rejected once for the key and once for the context
C7_Witness ==
    \E d1 \in Calls, d2 \in Calls :
        /\ CipherRejected(d1) /\ CipherRejected(d2)
        /\ frames[d1].ciphertext_b64 = frames[d2].ciphertext_b64
        /\ frames[d1].salt_b64 = frames[d2].salt_b64
        /\ frames[d1].nonce_b64 = frames[d2].nonce_b64
        /\ frames[d1].master_key # frames[d2].master_key
        /\ frames[d1].aad_context # frames[d2].aad_context

\* C8: freshness.  Every finished encrypt call drew a 16-byte salt and then a
\* 12-byte nonce from the random source before deriving the key and returns
\* exactly those; two finished encrypt calls whose four draws are pairwise
\* different return different salts and different nonces.
C8_Freshness ==
    /\ \A e \in Calls :
          EncDone(e) =>
              /\ frames[e].ran = EncryptSteps
              /\ Len(frames[e].draws) = 2
              /\ Len(frames[e].draws[1]) = SaltLen
              /\ Len(frames[e].draws[2]) = NonceLen
              /\ Env(e).salt = B64Encode(frames[e].draws[1])
              /\ Env(e).nonce = B64Encode(frames[e].draws[2])
    /\ \A e1 \in Calls, e2 \in Calls :
          (/\ e1 # e2 /\ EncDone(e1) /\ EncDone(e2)
           /\ \A i \in 1..Len(frames[e1].draws), j \in 1..Len(frames[e2].draws) :
                 frames[e1].draws[i] # frames[e2].draws[j])
          => /\ Env(e1).salt # Env(e2).salt
             /\ Env(e1).nonce # Env(e2).nonce

C8_Witness ==
    \E e1 \in Calls, e2 \in Calls :
        /\ e1 # e2 /\ EncDone(e1) /\ EncDone(e2)
        /\ frames[e1].plaintext = frames[e2].plaintext
        /\ frames[e1].master_key = frames[e2].master_key
        /\ frames[e1].aad_context = frames[e2].aad_context
        /\ \A i \in 1..2, j \in 1..2 : frames[e1].draws[i] # frames[e2].draws[j]
        /\ Env(e1).ciphertext # Env(e2).ciphertext

\* C9: concurrent calls do not interfere.  Under every interleaving, a
\* finished call's result is the one the function gives alone on the same
\* arguments and draws, and its derived key and other locals are gone; and
\* every step changes the frame of one call only.
C9_AloneResults ==
    \A c \in Calls :
        frames[c].pc = "done" =>
            /\ frames[c].key_bytes = <<>> /\ frames[c].salt = <<>>
            /\ frames[c].nonce_bytes = <<>> /\ frames[c].plaintext_bytes = <<>>
            /\ frames[c].op = "enc" =>
                   frames[c].result =
                       EncryptAlone(frames[c].plaintext, frames[c].master_key,
                                    frames[c].aad_context, frames[c].draws[1],
                                    frames[c].draws[2])
            /\ frames[c].op = "dec" =>
                   frames[c].result =
                       DecryptAlone(frames[c].ciphertext_b64, frames[c].salt_b64,
                                    frames[c].nonce_b64, frames[c].master_key,
                                    frames[c].aad_context)

C9_OneFrameStep ==
    \A c \in Calls, d \in Calls :
        (c # d /\ frames'[c] # frames[c]) => frames'[d] = frames[d]

C9_NoInterference == []C9_AloneResults /\ [][C9_OneFrameStep]_vars

\* a call that ran from start to finish while another call held its derived
\* key
C9_Witness ==
    /\ frames[1].pc \in {"enc_cipher", "dec_cipher"}
    /\ frames[2].pc = "done"
    /\ HasRun(frames[2], "derive_key")
    /\ frames[2].result.ok

\* C10: InvalidUtf8 only after authentication.  A decrypt call returns
\* InvalidUtf8 only when every earlier step ran and succeeded, the tag check
\* included; it is never returned for an envelope encrypt_with_context
\* returned, whatever master key and context decrypt is given.
C10_Utf8AfterAuth ==
    /\ \A d \in Calls :
          (DecDone(d) /\ IsInvalidUtf8(frames[d].result)) =>
              LET ct == B64Decode(frames[d].ciphertext_b64)
                  st == B64Decode(frames[d].salt_b64)
                  nc == B64Decode(frames[d].nonce_b64)
                  kd == derive_key(frames[d].master_key, st.bytes)
              IN  /\ frames[d].ran = DecryptSteps
                  /\ ct.ok /\ st.ok /\ nc.ok
                  /\ Len(nc.bytes) = NonceLen
                  /\ kd.ok
                  /\ AeadDecrypt(kd.key, nc.bytes, frames[d].aad_context,
                                 ct.bytes).ok
    /\ \A e \in Calls, d \in Calls :
          (EncDone(e) /\ DecDone(d) /\ SameEnvelope(d, e))
          => ~IsInvalidUtf8(frames[d].result)

\* InvalidUtf8 is returned, after every step of the call has run
C10_Witness ==
    \E d \in Calls :
        /\ DecDone(d)
        /\ IsInvalidUtf8(frames[d].result)
        /\ frames[d].ran = DecryptSteps

====
